---- MODULE Spec2Model ----
(***************************************************************************)
(* Model of src/src/main.rs: a carrier walking an unbounded sparse grid    *)
(* under one of two policies (CurrierRule, EvolvedRule), the iterator      *)
(* ComputingCluster and the consumer `infections`.                         *)
(*                                                                         *)
(* A Position is a pair <<row, col>> of i32.  A Grid is the HashMap it     *)
(* wraps: the set of its entries <<key, value>>, at most one per key.  A   *)
(* Currier is a record [position, direction].  An Option is <<>> (None)    *)
(* or <<v>> (Some(v)).                                                     *)
(***************************************************************************)
EXTENDS Integers, Sequences, FiniteSets, TLC

VARIABLES
    input,            \* the text handed to Grid::from, as rows of characters
    start,            \* the Currier as constructed by Currier::new
    overflow_checks,  \* build profile: TRUE when i32 overflow panics (debug)
    grid,             \* Grid.0, the HashMap<Position, CellState>
    currier,          \* [position, direction]
    policy,           \* "CurrierRule" | "EvolvedRule" | "none" (no cluster yet)
    n,                \* `steps` of infections(cluster, steps)
    taken,            \* elements the Take adapter has pulled so far
    count,            \* elements the filter let through so far
    item,             \* the last Option<Item> produced by ComputingCluster::next
    result,           \* Option: the value infections returned
    pc,               \* "text" | "setup" | "running" | "done" | "panicked"
    calls             \* the direct calls made on the grid and the currier

vars == <<input, start, overflow_checks, grid, currier, policy, n, taken,
          count, item, result, pc, calls>>

----------------------------------------------------------------------------
(* Bounds of the model.                                                    *)

MaxInfected == 3
MaxN == 5
MaxCalls == 2
MaxRun == 2
MaxSide == 3
MaxCycle == 4
MaxMoves == 5
Stride == 100

----------------------------------------------------------------------------
(* Values of the program.                                                  *)

CellState == {"Clean", "Weakened", "Infected", "Flagged"}

Direction == {"Up", "Right", "Left", "Down"}

Policies == {"CurrierRule", "EvolvedRule"}

I32Max == 2147483647

I32Min == (-I32Max) - 1

None == <<>>

Some(v) == <<v>>

(* static SIMPLE of the tests: "..#" / "#.." / "..." *)
SIMPLE == << <<".", ".", "#">>, <<"#", ".", ".">>, <<".", ".", ".">> >>

----------------------------------------------------------------------------
(* Grid                                                                    *)

(* Grid::from taking the width from the number of lines. *)
GridFrom_squareOnly(lines) ==
    LET h == Len(lines)
        w == Len(lines)
        infected == UNION { { <<r, c>> : c \in { x \in 1..Len(lines[r]) : lines[r][x] = "#" } } :
                            r \in 1..h }
    IN  { <<<<(rc[1] - 1) - (h \div 2), (rc[2] - 1) - (w \div 2)>>, "Infected">> :
            rc \in infected }

(* impl From<S> for Grid: h is the number of lines, w the length of the   *)
(* FIRST line; every '#' at (r, c), zero-based, becomes an Infected entry  *)
(* keyed (r - h/2, c - w/2).                                               *)
GridFrom(lines) ==
    LET h == Len(lines)
        w == Len(lines[1])
        infected == UNION { { <<r, c>> : c \in { x \in 1..Len(lines[r]) : lines[r][x] = "#" } } :
                            r \in 1..h }
    IN  { <<<<(rc[1] - 1) - (h \div 2), (rc[2] - 1) - (w \div 2)>>, "Infected">> :
            rc \in infected }

(* HashMap::get(&pos).cloned().unwrap_or(Clean) *)
state(g, pos) ==
    IF \E s \in CellState : <<pos, s>> \in g
    THEN CHOOSE s \in CellState : <<pos, s>> \in g
    ELSE "Clean"

(* clean with the removal forgotten. *)
clean_noop(g, pos) == g

(* HashMap::remove(&pos) *)
(* clean storing Clean in place of removing the entry. *)
clean_storesClean(g, pos) == (g \ {<<pos, s>> : s \in CellState}) \cup {<<pos, "Clean">>}

clean(g, pos) == g \ {<<pos, s>> : s \in CellState}

(* insert that keeps the entry pos had. *)
insert_keepsOld(g, pos, s) == g \cup {<<pos, s>>}

(* HashMap::insert(pos, s): the entry of pos, if any, is replaced *)
insert(g, pos, s) == (g \ {<<pos, t>> : t \in CellState}) \cup {<<pos, s>>}

(* weak writing the state infect writes. *)
weak_infects(g, pos) == insert(g, pos, "Infected")

weak(g, pos) == insert(g, pos, "Weakened")

(* infect leaving the grid as it is. *)
infect_noop(g, pos) == g

infect(g, pos) == insert(g, pos, "Infected")

(* Grid::flag writing Infected. *)
flag_infects(g, pos) == insert(g, pos, "Infected")

flag(g, pos) == insert(g, pos, "Flagged")

(* reverse with the Infected arm returning without cleaning. *)
reverse_keepsInfected(g, pos) ==
    LET s == state(g, pos)
    IN  IF s = "Clean" THEN [grid |-> infect(g, pos), ret |-> "Clean"]
        ELSE [grid |-> g, ret |-> s]

(* reverse with the last arm cleaning whatever is not Clean. *)
reverse_togglesAny(g, pos) ==
    LET s == state(g, pos)
    IN  IF s = "Clean" THEN [grid |-> infect(g, pos), ret |-> "Clean"]
        ELSE [grid |-> clean(g, pos), ret |-> s]

(* reverse with the Infected arm weakening the cell. *)
reverse_weakensInfected(g, pos) ==
    LET s == state(g, pos)
    IN  IF s = "Clean" THEN [grid |-> infect(g, pos), ret |-> "Clean"]
        ELSE IF s = "Infected" THEN [grid |-> weak(g, pos), ret |-> "Infected"]
        ELSE [grid |-> g, ret |-> s]

(* Grid::reverse: the grid after the call and the value returned. *)
reverse(g, pos) ==
    LET s == state(g, pos)
    IN  IF s = "Clean" THEN [grid |-> infect(g, pos), ret |-> "Clean"]
        ELSE IF s = "Infected" THEN [grid |-> clean(g, pos), ret |-> "Infected"]
        ELSE [grid |-> g, ret |-> s]

----------------------------------------------------------------------------
(* Currier                                                                 *)

new(startPos, direction) == [position |-> startPos, direction |-> direction]

Default == new(<<0, 0>>, "Up")

(* i32 `+= 1` and `-= 1` as the release build computes them (wrapping). *)
Inc32(x) == IF x = I32Max THEN I32Min ELSE x + 1

Dec32(x) == IF x = I32Min THEN I32Max ELSE x - 1

(* TRUE when the arithmetic of Currier::step overflows i32. *)
stepOverflows(c) ==
    \/ c.direction = "Up" /\ c.position[1] = I32Min
    \/ c.direction = "Down" /\ c.position[1] = I32Max
    \/ c.direction = "Left" /\ c.position[2] = I32Min
    \/ c.direction = "Right" /\ c.position[2] = I32Max

(* Currier::step with the Right arm moving as the Left one. *)
step_rightGoesLeft(c, checks) ==
    LET p == c.position
        moved == CASE c.direction = "Up" -> <<Dec32(p[1]), p[2]>>
                   [] c.direction = "Right" -> <<p[1], Dec32(p[2])>>
                   [] c.direction = "Left" -> <<p[1], Dec32(p[2])>>
                   [] c.direction = "Down" -> <<Inc32(p[1]), p[2]>>
    IN  IF checks /\ stepOverflows(c)
        THEN [currier |-> c, panic |-> TRUE]
        ELSE [currier |-> [c EXCEPT !.position = moved], panic |-> FALSE]

(* Currier::step: with overflow checks an overflowing step panics and     *)
(* leaves the currier as it was; without them the coordinate wraps.       *)
step(c, checks) ==
    LET p == c.position
        moved == CASE c.direction = "Up" -> <<Dec32(p[1]), p[2]>>
                   [] c.direction = "Right" -> <<p[1], Inc32(p[2])>>
                   [] c.direction = "Left" -> <<p[1], Dec32(p[2])>>
                   [] c.direction = "Down" -> <<Inc32(p[1]), p[2]>>
    IN  IF checks /\ stepOverflows(c)
        THEN [currier |-> c, panic |-> TRUE]
        ELSE [currier |-> [c EXCEPT !.position = moved], panic |-> FALSE]

(* right with Down and Left exchanged in its results. *)
right_mirrors(c) ==
    [c EXCEPT !.direction = CASE c.direction = "Up" -> "Right"
                              [] c.direction = "Right" -> "Left"
                              [] c.direction = "Left" -> "Up"
                              [] c.direction = "Down" -> "Down"]

right(c) ==
    [c EXCEPT !.direction = CASE c.direction = "Up" -> "Right"
                              [] c.direction = "Right" -> "Down"
                              [] c.direction = "Left" -> "Up"
                              [] c.direction = "Down" -> "Left"]

(* left with the table of right. *)
left_turnsRight(c) ==
    [c EXCEPT !.direction = CASE c.direction = "Up" -> "Right"
                              [] c.direction = "Right" -> "Down"
                              [] c.direction = "Left" -> "Up"
                              [] c.direction = "Down" -> "Left"]

left(c) ==
    [c EXCEPT !.direction = CASE c.direction = "Up" -> "Left"
                              [] c.direction = "Right" -> "Up"
                              [] c.direction = "Left" -> "Down"
                              [] c.direction = "Down" -> "Right"]

----------------------------------------------------------------------------
(* Policies.  apply yields the grid and the currier after the call, and   *)
(* whether the call panicked (then they are as the panic left them).      *)

Applied(g, stepped) == [grid |-> g, currier |-> stepped.currier, panic |-> stepped.panic]

(* CurrierRule::apply moving before it turns. *)
CurrierRule_apply_stepsFirst(g, c, checks) ==
    LET r == reverse(g, c.position)
        old_state == r.ret
        s == step(c, checks)
    IN  IF old_state = "Clean" THEN Applied(r.grid, [s EXCEPT !.currier = left(@)])
        ELSE IF old_state = "Infected" THEN Applied(r.grid, [s EXCEPT !.currier = right(@)])
        ELSE [grid |-> r.grid, currier |-> c, panic |-> TRUE]

CurrierRule_apply(g, c, checks) ==
    LET r == reverse(g, c.position)
        old_state == r.ret
    IN  IF old_state = "Clean" THEN Applied(r.grid, step(left(c), checks))
        ELSE IF old_state = "Infected" THEN Applied(r.grid, step(right(c), checks))
        ELSE [grid |-> r.grid, currier |-> c, panic |-> TRUE]

(* EvolvedRule::apply turning right once on a Flagged cell. *)
EvolvedRule_apply_flaggedTurnsOnce(g, c, checks) ==
    LET old_state == state(g, c.position)
        position == c.position
    IN  CASE old_state = "Clean" -> Applied(weak(g, position), step(left(c), checks))
          [] old_state = "Infected" -> Applied(flag(g, position), step(right(c), checks))
          [] old_state = "Weakened" -> Applied(infect(g, position), step(c, checks))
          [] old_state = "Flagged" -> Applied(clean(g, position), step(right(c), checks))

EvolvedRule_apply(g, c, checks) ==
    LET old_state == state(g, c.position)
        position == c.position
    IN  CASE old_state = "Clean" -> Applied(weak(g, position), step(left(c), checks))
          [] old_state = "Infected" -> Applied(flag(g, position), step(right(c), checks))
          [] old_state = "Weakened" -> Applied(infect(g, position), step(c, checks))
          [] old_state = "Flagged" -> Applied(clean(g, position), step(right(right(c)), checks))

apply(p, g, c, checks) ==
    IF p = "CurrierRule" THEN CurrierRule_apply(g, c, checks)
    ELSE EvolvedRule_apply(g, c, checks)

----------------------------------------------------------------------------
(* ComputingCluster                                                        *)

(* next reading the position after the policy moved the currier. *)
next_reportsNewPosition(p, g, c, checks) ==
    LET a == apply(p, g, c, checks)
        position == a.currier.position
    IN  [grid |-> a.grid, currier |-> a.currier, panic |-> a.panic,
         item |-> IF a.panic THEN None ELSE Some(<<position, state(a.grid, position)>>)]

(* Iterator::next: the cluster after the call and the Option returned. *)
next(p, g, c, checks) ==
    LET position == c.position
        a == apply(p, g, c, checks)
    IN  [grid |-> a.grid, currier |-> a.currier, panic |-> a.panic,
         item |-> IF a.panic THEN None ELSE Some(<<position, state(a.grid, position)>>)]

----------------------------------------------------------------------------
(* infections(cluster, steps) = cluster.take(steps).filter(..).count()    *)

(* The cluster and the loop of count() as one value. *)
Running == [grid |-> grid, currier |-> currier, panic |-> FALSE,
            taken |-> taken, count |-> count, item |-> item]

(* The round with the filter dropped: every element pulled is counted. *)
round_countsAll(cl, p, checks) ==
    LET r == next(p, cl.grid, cl.currier, checks)
    IN  IF r.panic
        THEN [cl EXCEPT !.grid = r.grid, !.currier = r.currier, !.panic = TRUE]
        ELSE [grid |-> r.grid, currier |-> r.currier, panic |-> FALSE,
              taken |-> cl.taken + 1, item |-> r.item, count |-> cl.count + 1]

(* One round of count()'s loop: Take::next pulls one element from the     *)
(* cluster, the filter keeps it when its state is Infected, count() adds  *)
(* one for an element kept.  A panic of next unwinds out of the loop.     *)
round(cl, p, checks) ==
    LET r == next(p, cl.grid, cl.currier, checks)
    IN  IF r.panic
        THEN [cl EXCEPT !.grid = r.grid, !.currier = r.currier, !.panic = TRUE]
        ELSE [grid |-> r.grid, currier |-> r.currier, panic |-> FALSE,
              taken |-> cl.taken + 1, item |-> r.item,
              count |-> IF r.item[1][2] = "Infected" THEN cl.count + 1 ELSE cl.count]

(* k rounds in a row, stopping at a panic. *)
RECURSIVE rounds(_, _, _, _)
rounds(k, cl, p, checks) ==
    IF k = 0 \/ cl.panic THEN cl ELSE rounds(k - 1, round(cl, p, checks), p, checks)

(* Take pulling its first element before it looks at the number left. *)
Pull_beforeLooking(k) ==
    /\ pc = "running"
    /\ taken < n \/ taken = 0
    /\ \E cl \in {rounds(k, Running, policy, overflow_checks)} :
           /\ grid' = cl.grid
           /\ currier' = cl.currier
           /\ taken' = cl.taken
           /\ count' = cl.count
           /\ item' = cl.item
           /\ pc' = IF cl.panic THEN "panicked" ELSE "running"
    /\ UNCHANGED <<input, start, overflow_checks, policy, n, result, calls>>

(* The next k rounds of the loop, k of the elements Take has left. *)
Pull(k) ==
    /\ pc = "running"
    /\ taken < n
    /\ k \in 1..(n - taken)
    /\ \E cl \in {rounds(k, Running, policy, overflow_checks)} :
           /\ grid' = cl.grid
           /\ currier' = cl.currier
           /\ taken' = cl.taken
           /\ count' = cl.count
           /\ item' = cl.item
           /\ pc' = IF cl.panic THEN "panicked" ELSE "running"
    /\ UNCHANGED <<input, start, overflow_checks, policy, n, result, calls>>

(* The loop seen one round at a time. *)
Take == Pull(1)

Min(a, b) == IF a < b THEN a ELSE b

(* The loop seen Stride rounds at a time (the last stride may be shorter). *)
TakeStride == Pull(Min(Stride, n - taken))

(* Take::next answers None once `steps` elements were pulled; count() returns. *)
Return ==
    /\ pc = "running"
    /\ taken = n
    /\ pc' = "done"
    /\ result' = Some(count)
    /\ UNCHANGED <<input, start, overflow_checks, grid, currier, policy, n,
                   taken, count, item, calls>>

----------------------------------------------------------------------------
(* The program of main: a grid built from text, a cluster over it, one    *)
(* call of infections.                                                     *)

Chars == {".", "#"}

Infected(block) ==
    { rc \in (1..Len(block)) \X (1..Len(block[1])) : block[rc[1]][rc[2]] = "#" }

(* The blocks of text of the shape of SIMPLE with at most MaxInfected '#'. *)
Blocks ==
    { b \in [1..Len(SIMPLE) -> [1..Len(SIMPLE[1]) -> Chars]] :
        Cardinality(Infected(b)) <= MaxInfected }

Starts == {<<0, 0>>, <<1, -1>>}

(* The runs of the tests count_infections, count_lot_of_infections and    *)
(* count_infections_evolved_virus, and the counts they assert.            *)
ShortSteps == 70

ShortCount == 41

LongSteps == 10000

LongCount == 5587

EvolvedSteps == 100

EvolvedCount == 26

Scenarios == { <<"CurrierRule", ShortSteps>>, <<"EvolvedRule", EvolvedSteps>> }

(* What holds of every run of infections as it starts. *)
Started ==
    /\ overflow_checks \in BOOLEAN
    /\ grid = GridFrom(input)
    /\ currier = start
    /\ taken = 0
    /\ count = 0
    /\ item = None
    /\ result = None
    /\ pc = "running"
    /\ calls = <<>>

Init ==
    /\ input \in Blocks
    /\ start = Default
    /\ n \in 0..MaxN
    /\ policy \in Policies
    /\ Started

(* The runs of the tests: SIMPLE, the default currier. *)
InitScenario ==
    /\ input = SIMPLE
    /\ start = Default
    /\ \E sc \in Scenarios : policy = sc[1] /\ n = sc[2]
    /\ Started

Next == Take \/ Return

Spec == Init /\ [][Next]_vars

(* The program is one thread that runs to completion: a step that can be  *)
(* taken is taken.                                                        *)
FairSpec == Spec /\ WF_vars(Next)

SpecScenario == InitScenario /\ [][Next]_vars

(* The long run of count_lot_of_infections, Stride rounds to a step. *)
InitLong ==
    /\ input = SIMPLE
    /\ start = Default
    /\ policy = "CurrierRule"
    /\ n = LongSteps
    /\ Started

NextLong == TakeStride \/ Return

SpecLong == InitLong /\ [][NextLong]_vars

----------------------------------------------------------------------------
(* The library as the tests use it: a grid built from text and a currier, *)
(* then direct calls of their methods and of Policy::apply in any order,  *)
(* then, possibly, a cluster built over them (ComputingCluster::new takes *)
(* the grid and the currier by value, so no direct call follows it) and   *)
(* one call of infections.  Every call is recorded in `calls` with the    *)
(* grid and the currier it found; at most MaxCalls calls are made.        *)

(* The positions the direct calls of the grid's methods name. *)
Cells == {<<0, 0>>, <<0, -1>>, <<1, -1>>}

ApiInputs == {SIMPLE, << <<"#">> >>}

Call(op, pos, ret) ==
    [op |-> op, pos |-> pos, ret |-> ret, grid |-> grid, currier |-> currier]

(* What every direct call does besides its own effect. *)
Called(op, pos, ret, g, c, panic) ==
    /\ pc = "setup"
    /\ Len(calls) < MaxCalls
    /\ calls' = Append(calls, Call(op, pos, ret))
    /\ grid' = g
    /\ currier' = c
    /\ pc' = IF panic THEN "panicked" ELSE "setup"
    /\ UNCHANGED <<input, start, overflow_checks, policy, n, taken, count, item, result>>

CallState(pos) == Called("state", pos, Some(state(grid, pos)), grid, currier, FALSE)

CallClean(pos) == Called("clean", pos, None, clean(grid, pos), currier, FALSE)

CallWeak(pos) == Called("weak", pos, None, weak(grid, pos), currier, FALSE)

CallInfect(pos) == Called("infect", pos, None, infect(grid, pos), currier, FALSE)

CallFlag(pos) == Called("flag", pos, None, flag(grid, pos), currier, FALSE)

CallReverse(pos) ==
    LET r == reverse(grid, pos)
    IN  Called("reverse", pos, Some(r.ret), r.grid, currier, FALSE)

CallStep ==
    LET r == step(currier, overflow_checks)
    IN  Called("step", currier.position,
               IF r.panic THEN None ELSE Some(r.currier.position),
               grid, r.currier, r.panic)

CallRight == Called("right", currier.position, None, grid, right(currier), FALSE)

CallLeft == Called("left", currier.position, None, grid, left(currier), FALSE)

CallApply(p) ==
    LET a == apply(p, grid, currier, overflow_checks)
    IN  Called(p, currier.position, None, a.grid, a.currier, a.panic)

(* ComputingCluster::new(grid, currier, policy), handed to infections. *)
CallInfections(p, steps) ==
    /\ pc = "setup"
    /\ Len(calls) < MaxCalls
    /\ calls' = Append(calls, Call("infections", currier.position, None))
    /\ policy' = p
    /\ n' = steps
    /\ pc' = "running"
    /\ UNCHANGED <<input, start, overflow_checks, grid, currier, taken, count,
                   item, result>>

InitApi ==
    /\ input \in ApiInputs
    /\ start \in {new(s, d) : <<s, d>> \in Starts \X Direction}
    /\ overflow_checks \in BOOLEAN
    /\ grid = GridFrom(input)
    /\ currier = start
    /\ policy = "none"
    /\ n = 0
    /\ taken = 0
    /\ count = 0
    /\ item = None
    /\ result = None
    /\ pc = "setup"
    /\ calls = <<>>

NextApi ==
    \/ \E pos \in Cells :
          \/ CallState(pos)
          \/ CallClean(pos)
          \/ CallWeak(pos)
          \/ CallInfect(pos)
          \/ CallFlag(pos)
          \/ CallReverse(pos)
    \/ CallStep
    \/ CallRight
    \/ CallLeft
    \/ \E p \in Policies : CallApply(p)
    \/ \E p \in Policies, steps \in 0..MaxRun : CallInfections(p, steps)
    \/ Take
    \/ Return

SpecApi == InitApi /\ [][NextApi]_vars

----------------------------------------------------------------------------
(* Grid::from on its own: a rectangular text of at most MaxSide lines and *)
(* columns, then the grid built from it.                                   *)

Texts == UNION { [1..h -> [1..w -> Chars]] : <<h, w>> \in (1..MaxSide) \X (1..MaxSide) }

InitFrom ==
    /\ input \in Texts
    /\ start = Default
    /\ overflow_checks = FALSE
    /\ grid = {}
    /\ currier = start
    /\ policy = "none"
    /\ n = 0
    /\ taken = 0
    /\ count = 0
    /\ item = None
    /\ result = None
    /\ pc = "text"
    /\ calls = <<>>

(* Grid::from(&content) *)
Build ==
    /\ pc = "text"
    /\ grid' = GridFrom(input)
    /\ pc' = "setup"
    /\ UNCHANGED <<input, start, overflow_checks, currier, policy, n, taken,
                   count, item, result, calls>>

SpecFrom == InitFrom /\ [][Build]_vars

----------------------------------------------------------------------------
(* test evolved_policy, with the facing carried from one application to   *)
(* the next: a carrier is put back on the same cell (Currier::new) and    *)
(* EvolvedRule is applied to it, at most MaxCycle times.                   *)

InitCycle ==
    /\ input \in ApiInputs
    /\ start \in { new(pos, d) : pos \in Cells, d \in Direction }
    /\ overflow_checks \in BOOLEAN
    /\ grid = GridFrom(input)
    /\ currier = start
    /\ policy = "EvolvedRule"
    /\ n = 0
    /\ taken = 0
    /\ count = 0
    /\ item = None
    /\ result = None
    /\ pc = "setup"
    /\ calls = <<>>

(* let mut currier = Currier::new(..); policy.apply(&mut grid, &mut currier) *)
Revisit ==
    /\ pc = "setup"
    /\ Len(calls) < MaxCycle
    /\ \E c \in {new(start.position, currier.direction)} :
       \E a \in {EvolvedRule_apply(grid, c, overflow_checks)} :
           /\ calls' = Append(calls, [op |-> "EvolvedRule", pos |-> c.position, ret |-> None,
                                      grid |-> grid, currier |-> c])
           /\ grid' = a.grid
           /\ currier' = a.currier
           /\ pc' = IF a.panic THEN "panicked" ELSE "setup"
    /\ UNCHANGED <<input, start, overflow_checks, policy, n, taken, count, item, result>>

SpecCycle == InitCycle /\ [][Revisit]_vars

----------------------------------------------------------------------------
(* test currier_moves: a carrier on its own, stepped and turned at most   *)
(* MaxMoves times.                                                         *)

Facings == { new(pos, d) : pos \in Starts, d \in Direction }

InitCurrier ==
    /\ input = SIMPLE
    /\ start \in Facings
    /\ overflow_checks \in BOOLEAN
    /\ grid = GridFrom(input)
    /\ currier = start
    /\ policy = "none"
    /\ n = 0
    /\ taken = 0
    /\ count = 0
    /\ item = None
    /\ result = None
    /\ pc = "setup"
    /\ calls = <<>>

Moved(op, ret, c, panic) ==
    /\ pc = "setup"
    /\ Len(calls) < MaxMoves
    /\ calls' = Append(calls, Call(op, currier.position, ret))
    /\ currier' = c
    /\ pc' = IF panic THEN "panicked" ELSE "setup"
    /\ UNCHANGED <<input, start, overflow_checks, grid, policy, n, taken, count,
                   item, result>>

(* currier.step() *)
MoveStep ==
    \E r \in {step(currier, overflow_checks)} :
        Moved("step", IF r.panic THEN None ELSE Some(r.currier.position), r.currier, r.panic)

(* currier.right() *)
TurnRight == Moved("right", None, right(currier), FALSE)

(* currier.left() *)
TurnLeft == Moved("left", None, left(currier), FALSE)

NextCurrier == MoveStep \/ TurnRight \/ TurnLeft

SpecCurrier == InitCurrier /\ [][NextCurrier]_vars

----------------------------------------------------------------------------
(* The same carrier created by Currier::new on the border of the i32      *)
(* coordinates.                                                            *)

Edges == {<<I32Min, 0>>, <<I32Max, 0>>, <<0, I32Min>>, <<0, I32Max>>}

InitEdge ==
    /\ input = SIMPLE
    /\ start \in { new(pos, d) : pos \in Edges, d \in Direction }
    /\ overflow_checks \in BOOLEAN
    /\ grid = GridFrom(input)
    /\ currier = start
    /\ policy = "none"
    /\ n = 0
    /\ taken = 0
    /\ count = 0
    /\ item = None
    /\ result = None
    /\ pc = "setup"
    /\ calls = <<>>

SpecEdge == InitEdge /\ [][NextCurrier]_vars

----------------------------------------------------------------------------
(* The scenarios of the tests.                                             *)

ScenarioRun(p) == input = SIMPLE /\ start = Default /\ policy = p

(* C1: under CurrierRule, on the grid of SIMPLE with the default currier, *)
(* 41 of the first 70 steps leave their cell Infected, and                *)
(* infections(cluster, 70) returns 41.                                    *)
C1_CountInfections ==
    /\ (ScenarioRun("CurrierRule") /\ taken = ShortSteps) => count = ShortCount
    /\ (ScenarioRun("CurrierRule") /\ n = ShortSteps /\ pc = "done")
          => result = Some(ShortCount)

C1_Witness ==
    ScenarioRun("CurrierRule") /\ n = ShortSteps /\ taken = ShortSteps /\ pc = "done"

(* C2: under EvolvedRule, on the grid of SIMPLE with the default currier, *)
(* 26 of the first 100 steps leave their cell Infected, and               *)
(* infections(cluster, 100) returns 26.                                   *)
C2_CountInfectionsEvolved ==
    /\ (ScenarioRun("EvolvedRule") /\ taken = EvolvedSteps) => count = EvolvedCount
    /\ (ScenarioRun("EvolvedRule") /\ n = EvolvedSteps /\ pc = "done")
          => result = Some(EvolvedCount)

C2_Witness ==
    ScenarioRun("EvolvedRule") /\ n = EvolvedSteps /\ taken = EvolvedSteps /\ pc = "done"

(* C3: under CurrierRule, on the grid of SIMPLE with the default currier, *)
(* 5587 of the first 10000 steps leave their cell Infected, and           *)
(* infections(cluster, 10000) returns 5587.                               *)
C3_CountLotOfInfections ==
    /\ (ScenarioRun("CurrierRule") /\ taken = LongSteps) => count = LongCount
    /\ (ScenarioRun("CurrierRule") /\ n = LongSteps /\ pc = "done")
          => result = Some(LongCount)

C3_Witness ==
    ScenarioRun("CurrierRule") /\ n = LongSteps /\ taken = LongSteps /\ pc = "done"

----------------------------------------------------------------------------
(* The words of the properties below: turns, moves and the two tables.    *)

LastCall == calls[Len(calls)]

TurnedLeft(d) ==
    CASE d = "Up" -> "Left" [] d = "Left" -> "Down"
      [] d = "Down" -> "Right" [] d = "Right" -> "Up"

TurnedRight(d) ==
    CASE d = "Up" -> "Right" [] d = "Right" -> "Down"
      [] d = "Down" -> "Left" [] d = "Left" -> "Up"

Reversed(d) ==
    CASE d = "Up" -> "Down" [] d = "Down" -> "Up"
      [] d = "Left" -> "Right" [] d = "Right" -> "Left"

OneAhead(pos, d) ==
    CASE d = "Up" -> <<pos[1] - 1, pos[2]>> [] d = "Down" -> <<pos[1] + 1, pos[2]>>
      [] d = "Left" -> <<pos[1], pos[2] - 1>> [] d = "Right" -> <<pos[1], pos[2] + 1>>

(* The entries of a grid away from pos. *)
Elsewhere(g, pos) == {e \in g : e[1] # pos}

(* §4.4: pre-state -> post-state, facing after the turn, and the offset   *)
(* of the position after the step for a currier that faced Up.            *)
EvolvedRow(s, d) ==
    CASE s = "Clean" -> [post |-> "Weakened", facing |-> TurnedLeft(d), up |-> <<0, -1>>]
      [] s = "Weakened" -> [post |-> "Infected", facing |-> d, up |-> <<-1, 0>>]
      [] s = "Infected" -> [post |-> "Flagged", facing |-> TurnedRight(d), up |-> <<0, 1>>]
      [] s = "Flagged" -> [post |-> "Clean", facing |-> Reversed(d), up |-> <<1, 0>>]

(* §4.3: Clean -> Infected with a left turn, Infected -> Clean with a right turn. *)
BasicRow(s, d) ==
    CASE s = "Clean" -> [post |-> "Infected", facing |-> TurnedLeft(d)]
      [] s = "Infected" -> [post |-> "Clean", facing |-> TurnedRight(d)]

(* C4: a call of EvolvedRule::apply never panics, leaves the cell the     *)
(* currier stood on in the post-state of the table, the currier facing as *)
(* the table's turn says and one cell ahead of the cell in that facing;   *)
(* for a currier that faced Up that is (0,-1), (-1,0), (0,1), (1,0) from  *)
(* the cell for Clean, Weakened, Infected, Flagged.                       *)
C4_EvolvedPolicy ==
    (Len(calls) > 0 /\ LastCall.op = "EvolvedRule") =>
        LET p == LastCall.currier.position
            d == LastCall.currier.direction
            row == EvolvedRow(state(LastCall.grid, p), d)
        IN  /\ pc # "panicked"
            /\ state(grid, p) = row.post
            /\ currier.direction = row.facing
            /\ currier.position = OneAhead(p, row.facing)
            /\ d = "Up" => currier.position = <<p[1] + row.up[1], p[2] + row.up[2]>>

C4_Witness ==
    /\ Len(calls) = 2
    /\ LastCall.op = "EvolvedRule"
    /\ LastCall.currier.direction = "Up"
    /\ state(LastCall.grid, LastCall.currier.position) = "Flagged"
    /\ state(grid, LastCall.currier.position) = "Clean"
    /\ currier.direction = "Down"

(* C5: a call of CurrierRule::apply on a Clean or Infected cell toggles   *)
(* the cell, turns the currier left when the cell was Clean and right     *)
(* when it was Infected, and then moves it one cell in the new facing.    *)
C5_BasicPolicy ==
    (/\ Len(calls) > 0
     /\ LastCall.op = "CurrierRule"
     /\ state(LastCall.grid, LastCall.currier.position) \in {"Clean", "Infected"}) =>
        LET p == LastCall.currier.position
            row == BasicRow(state(LastCall.grid, p), LastCall.currier.direction)
        IN  /\ pc # "panicked"
            /\ state(grid, p) = row.post
            /\ currier.direction = row.facing
            /\ currier.position = OneAhead(p, row.facing)

C5_Witness ==
    /\ Len(calls) = 2
    /\ LastCall.op = "CurrierRule"
    /\ calls[1].op = "CurrierRule"
    /\ state(LastCall.grid, LastCall.currier.position) = "Infected"
    /\ state(grid, LastCall.currier.position) = "Clean"
    /\ currier.direction = TurnedRight(LastCall.currier.direction)

(* The first elements the test policy_currier asserts. *)
SimpleItems ==
    << <<<<0, 0>>, "Infected">>, <<<<0, -1>>, "Clean">>, <<<<-1, -1>>, "Infected">>,
       <<<<-1, -2>>, "Infected">>, <<<<0, -2>>, "Infected">>, <<<<0, -1>>, "Infected">>,
       <<<<-1, -1>>, "Clean">> >>

(* C6: every element of the cluster is the pair of the position the       *)
(* currier stood on before the step (which is where the step before left  *)
(* it) and the state of that cell after the step: not the position it     *)
(* moved to, not the state the cell had before; under CurrierRule on      *)
(* SIMPLE the first seven elements are those of SimpleItems.              *)
C6_NextItem ==
    /\ [][taken' = taken + 1 =>
            /\ item' = Some(<<currier.position, state(grid', currier.position)>>)
            /\ item'[1][1] # currier'.position
            /\ item'[1][2] # state(grid, currier.position)]_vars
    /\ []((ScenarioRun("CurrierRule") /\ taken \in 1..Len(SimpleItems))
            => item = Some(SimpleItems[taken]))

C6_Witness ==
    /\ ScenarioRun("CurrierRule")
    /\ taken = Len(SimpleItems)
    /\ item = Some(<<<<-1, -1>>, "Clean">>)
    /\ currier.position # <<-1, -1>>

(* C7: infections(cluster, n) returns, having pulled exactly n elements,  *)
(* one policy application each; every element pulled adds 1 to the count  *)
(* when its state is Infected and 0 otherwise, so the value returned is   *)
(* the number of Infected elements and at most n.                         *)
C7_Infections ==
    /\ [][taken' # taken =>
            /\ taken' = taken + 1
            /\ taken' <= n
            /\ item' # None
            /\ count' = count + (IF item'[1][2] = "Infected" THEN 1 ELSE 0)]_vars
    /\ [][count' # count => taken' # taken]_vars
    /\ [](count <= taken)
    /\ [](pc = "done" => (taken = n /\ result = Some(count) /\ count <= n))
    /\ <>(pc = "done")

C7_Witness ==
    /\ pc = "done"
    /\ n = MaxN
    /\ taken = MaxN
    /\ result = Some(count)
    /\ count > 0
    /\ count < n

(* C8: infections(cluster, 0) returns 0 whatever the grid and the policy, *)
(* and the grid and the currier stay as the cluster received them.        *)
C8_ZeroSteps ==
    (pc \in {"running", "done", "panicked"} /\ policy \in Policies /\ n = 0) =>
        /\ pc # "panicked"
        /\ LastCall.op = "infections"
        /\ grid = LastCall.grid
        /\ currier = LastCall.currier
        /\ taken = 0
        /\ item = None
        /\ pc = "done" => result = Some(0)

C8_Witness ==
    /\ pc = "done"
    /\ n = 0
    /\ policy = "CurrierRule"
    /\ state(grid, currier.position) = "Weakened"
    /\ result = Some(0)

OutOfAlphabet(g, c) == state(g, c.position) \in {"Weakened", "Flagged"}

(* C9: CurrierRule::apply on a Weakened or Flagged cell panics with the   *)
(* grid and the currier as they were; inside infections the panic ends    *)
(* the run with no further element and no value returned.                 *)
C9_BasicOutOfAlphabet ==
    /\ []((/\ Len(calls) > 0
           /\ LastCall.op = "CurrierRule"
           /\ OutOfAlphabet(LastCall.grid, LastCall.currier))
            => (pc = "panicked" /\ grid = LastCall.grid /\ currier = LastCall.currier))
    /\ [][(/\ pc = "running"
           /\ policy = "CurrierRule"
           /\ taken < n
           /\ OutOfAlphabet(grid, currier))
            => (/\ pc' = "panicked"
                /\ grid' = grid
                /\ currier' = currier
                /\ item' = item
                /\ taken' = taken
                /\ count' = count
                /\ result' = None)]_vars
    /\ [](pc = "panicked" => result = None)
    /\ [][pc = "panicked" => pc' = "panicked"]_vars

C9_Witness ==
    /\ pc = "panicked"
    /\ policy = "CurrierRule"
    /\ LastCall.op = "infections"
    /\ taken = 1
    /\ OutOfAlphabet(grid, currier)
    /\ result = None

Complement(s) == IF s = "Clean" THEN "Infected" ELSE "Clean"

(* C10: two calls of reverse in a row on a position whose cell is Clean   *)
(* or Infected return the original state and then its complement, leave  *)
(* the grid as it was before the first, and neither call touches another  *)
(* cell.                                                                  *)
C10_ReverseTwice ==
    (/\ Len(calls) >= 2
     /\ LastCall.op = "reverse"
     /\ calls[Len(calls) - 1].op = "reverse"
     /\ calls[Len(calls) - 1].pos = LastCall.pos
     /\ state(calls[Len(calls) - 1].grid, LastCall.pos) \in {"Clean", "Infected"}) =>
        LET pos == LastCall.pos
            before == calls[Len(calls) - 1].grid
            between == LastCall.grid
            original == state(before, pos)
        IN  /\ calls[Len(calls) - 1].ret = Some(original)
            /\ state(between, pos) = Complement(original)
            /\ LastCall.ret = Some(Complement(original))
            /\ state(grid, pos) = original
            /\ grid = before
            /\ Elsewhere(between, pos) = Elsewhere(before, pos)

C10_Witness ==
    /\ Len(calls) = 2
    /\ LastCall.op = "reverse"
    /\ calls[1].op = "reverse"
    /\ calls[1].pos = LastCall.pos
    /\ calls[1].ret = Some("Infected")
    /\ LastCall.ret = Some("Clean")
    /\ state(grid, LastCall.pos) = "Infected"
    /\ Elsewhere(grid, LastCall.pos) # {}

(* The coordinate the text's character at line r, column c (from 0) gets. *)
Centred(h, w, r, c) == <<r - (h \div 2), c - (w \div 2)>>

(* C11: the grid built from a text of h lines and w columns reads         *)
(* Infected at (r - h/2, c - w/2) exactly where the text has '#' at line  *)
(* r, column c, holds nothing else, and reads Clean everywhere else; in a *)
(* 3x3 text the centre is (0,0) and the corners are (-1,-1), (-1,1),      *)
(* (1,-1), (1,1).                                                         *)
C11_GridFrom ==
    pc = "setup" =>
        LET h == Len(input)
            w == Len(input[1])
            Marked(r, c) == input[r + 1][c + 1] = "#"
            Reads(pos, marked) == state(grid, pos) = (IF marked THEN "Infected" ELSE "Clean")
        IN  /\ \A r \in 0..(h - 1), c \in 0..(w - 1) :
                   Reads(Centred(h, w, r, c), Marked(r, c))
            /\ \A e \in grid :
                   /\ e[2] = "Infected"
                   /\ \E r \in 0..(h - 1), c \in 0..(w - 1) :
                          e[1] = Centred(h, w, r, c) /\ Marked(r, c)
            /\ \A pos \in (-(MaxSide + 1)..(MaxSide + 1)) \X (-(MaxSide + 1)..(MaxSide + 1)) :
                   (~ \E r \in 0..(h - 1), c \in 0..(w - 1) : pos = Centred(h, w, r, c))
                       => state(grid, pos) = "Clean"
            /\ (h = 3 /\ w = 3) =>
                   /\ Reads(<<0, 0>>, Marked(1, 1))
                   /\ Reads(<<-1, -1>>, Marked(0, 0))
                   /\ Reads(<<-1, 1>>, Marked(0, 2))
                   /\ Reads(<<1, -1>>, Marked(2, 0))
                   /\ Reads(<<1, 1>>, Marked(2, 2))

C11_Witness ==
    /\ pc = "setup"
    /\ Len(input) = 2
    /\ Len(input[1]) = 3
    /\ input[2][1] = "#"
    /\ input[1][3] = "#"
    /\ grid = {<<<<0, -1>>, "Infected">>, <<<<-1, 1>>, "Infected">>}

(* The grid and the facing after the i-th application of SpecCycle. *)
AfterVisit(i) ==
    IF i < Len(calls)
    THEN [grid |-> calls[i + 1].grid, direction |-> calls[i + 1].currier.direction]
    ELSE [grid |-> grid, direction |-> currier.direction]

(* Four applications in a row, the first one on a Clean cell, take the    *)
(* cell through Weakened, Infected and Flagged back to Clean.             *)
CellCycle(i) ==
    /\ state(AfterVisit(i).grid, start.position) = "Weakened"
    /\ state(AfterVisit(i + 1).grid, start.position) = "Infected"
    /\ state(AfterVisit(i + 2).grid, start.position) = "Flagged"
    /\ state(AfterVisit(i + 3).grid, start.position) = "Clean"

CycleStarts == { i \in 1..Len(calls) : /\ i + 3 <= Len(calls)
                                       /\ state(calls[i].grid, start.position) = "Clean" }

(* C12 as stated: the four EvolvedRule applications on a cell that starts *)
(* Clean leave it Clean after Weakened, Infected, Flagged, and the facing *)
(* after the four turns equals the facing before them.                    *)
C12_CycleFacingSame ==
    \A i \in CycleStarts :
        /\ CellCycle(i)
        /\ AfterVisit(i + 3).direction = calls[i].currier.direction

(* C12 amended: the four EvolvedRule applications on a cell that starts   *)
(* Clean leave it Clean after Weakened, Infected, Flagged, and the four   *)
(* turns (left, none, right, reverse) compose to a half turn: the facing  *)
(* after them is the opposite of the facing before them.                  *)
C12_CycleFacingReversed ==
    \A i \in CycleStarts :
        /\ CellCycle(i)
        /\ AfterVisit(i).direction = TurnedLeft(calls[i].currier.direction)
        /\ AfterVisit(i + 1).direction = AfterVisit(i).direction
        /\ AfterVisit(i + 2).direction = TurnedRight(AfterVisit(i + 1).direction)
        /\ AfterVisit(i + 3).direction = Reversed(AfterVisit(i + 2).direction)
        /\ AfterVisit(i + 3).direction = Reversed(calls[i].currier.direction)

C12_Witness ==
    /\ Len(calls) = 4
    /\ 1 \in CycleStarts
    /\ start.direction = "Up"
    /\ currier.direction = "Down"
    /\ state(grid, start.position) = "Clean"

(* The carrier after the i-th call of SpecCurrier. *)
AfterMove(i) == IF i < Len(calls) THEN calls[i + 1].currier ELSE currier

(* The names of the calls made so far. *)
Ops == [i \in 1..Len(calls) |-> calls[i].op]

(* C13: step moves the carrier one unit in its facing (Up: row-1, Down:   *)
(* row+1, Right: col+1, Left: col-1), returns the new position and keeps  *)
(* the facing; right and left keep the position, so they change only      *)
(* where the next step goes: from (0,0) facing Up, step gives (-1,0),     *)
(* right and step give (-1,1), left and step give (-2,1).                 *)
C13_StepMoves ==
    /\ \A i \in 1..Len(calls) :
           LET c == calls[i].currier
               p == c.position
           IN  /\ calls[i].op = "step" =>
                      /\ AfterMove(i).position =
                             CASE c.direction = "Up" -> <<p[1] - 1, p[2]>>
                               [] c.direction = "Down" -> <<p[1] + 1, p[2]>>
                               [] c.direction = "Right" -> <<p[1], p[2] + 1>>
                               [] c.direction = "Left" -> <<p[1], p[2] - 1>>
                      /\ calls[i].ret = Some(AfterMove(i).position)
                      /\ AfterMove(i).direction = c.direction
               /\ calls[i].op \in {"right", "left"} => AfterMove(i).position = p
    /\ pc = "setup"
    /\ (start = Default /\ Ops = <<"step", "right", "step", "left", "step">>) =>
           /\ calls[1].ret = Some(<<-1, 0>>)
           /\ calls[3].ret = Some(<<-1, 1>>)
           /\ calls[5].ret = Some(<<-2, 1>>)
           /\ currier = new(<<-2, 1>>, "Up")

C13_Witness ==
    /\ start = Default
    /\ Ops = <<"step", "right", "step", "left", "step">>
    /\ currier.position = <<-2, 1>>

(* C15: right is the rotation Up -> Right -> Down -> Left -> Up and left  *)
(* the opposite one; a left after a right (or a right after a left)       *)
(* restores the facing, four equal turns restore it, two equal turns in   *)
(* either direction reverse it, which is the turn EvolvedRule makes on a  *)
(* Flagged cell; no turn moves the carrier.                               *)
C15_Turns ==
    /\ \A i \in 1..Len(calls) :
           LET c == calls[i].currier
           IN  /\ calls[i].op = "right" => AfterMove(i).direction = TurnedRight(c.direction)
               /\ calls[i].op = "left" => AfterMove(i).direction = TurnedLeft(c.direction)
               /\ calls[i].op \in {"right", "left"} => AfterMove(i).position = c.position
    /\ \A i \in 1..(Len(calls) - 1) :
           /\ <<Ops[i], Ops[i + 1]>> \in {<<"right", "left">>, <<"left", "right">>} =>
                  AfterMove(i + 1) = calls[i].currier
           /\ <<Ops[i], Ops[i + 1]>> \in {<<"right", "right">>, <<"left", "left">>} =>
                  /\ AfterMove(i + 1).direction = Reversed(calls[i].currier.direction)
                  /\ AfterMove(i + 1).direction =
                         EvolvedRule_apply({<<calls[i].currier.position, "Flagged">>},
                                           calls[i].currier, FALSE).currier.direction
    /\ \A i \in 1..(Len(calls) - 3) :
           (\E op \in {"right", "left"} : \A k \in 0..3 : Ops[i + k] = op) =>
               AfterMove(i + 3) = calls[i].currier

C15_Witness ==
    /\ Ops = <<"right", "right", "right", "right", "left">>
    /\ start = Default
    /\ calls[3].currier.direction = "Down"
    /\ calls[5].currier = start
    /\ currier.direction = "Left"

(* C14: every step succeeds and puts the carrier exactly one unit away,   *)
(* also from the border of the i32 coordinates: no step panics and no     *)
(* coordinate wraps around.                                               *)
C14_StepNeverOverflows ==
    /\ pc # "panicked"
    /\ \A i \in 1..Len(calls) :
           calls[i].op = "step" =>
               LET c == calls[i].currier
                   p == c.position
                   q == AfterMove(i).position
               IN  /\ calls[i].ret = Some(q)
                   /\ CASE c.direction = "Up" ->
                              p[1] # I32Min /\ q = <<p[1] - 1, p[2]>>
                        [] c.direction = "Down" ->
                              p[1] # I32Max /\ q = <<p[1] + 1, p[2]>>
                        [] c.direction = "Left" ->
                              p[2] # I32Min /\ q = <<p[1], p[2] - 1>>
                        [] c.direction = "Right" ->
                              p[2] # I32Max /\ q = <<p[1], p[2] + 1>>

(* The grid after the i-th call of SpecApi. *)
AfterCall(i) == IF i < Len(calls) THEN calls[i + 1].grid ELSE grid

(* What the mapping g stores for pos. *)
Stored(g, pos) == { e[2] : e \in { x \in g : x[1] = pos } }

(* The states of the cells other than pos are the same in g and h. *)
OthersKept(g, h, pos) ==
    /\ Elsewhere(h, pos) = Elsewhere(g, pos)
    /\ \A q \in Cells \ {pos} : state(h, q) = state(g, q)

(* The state a write sets. *)
Written(op) ==
    CASE op = "clean" -> "Clean" [] op = "weak" -> "Weakened"
      [] op = "infect" -> "Infected" [] op = "flag" -> "Flagged"

(* C17: state(pos) returns what the grid holds for pos, Clean when it     *)
(* holds nothing, and leaves the grid alone; clean, weak, infect and flag *)
(* make state(pos) Clean, Weakened, Infected and Flagged whatever pos     *)
(* held, change no other position, and cleaning a clean cell or infecting *)
(* an infected one changes nothing.                                       *)
C17_ReadsAndWrites ==
    \A i \in 1..Len(calls) :
        LET g == calls[i].grid
            h == AfterCall(i)
            pos == calls[i].pos
            op == calls[i].op
        IN  /\ op = "state" =>
                   /\ Stored(g, pos) = {} => calls[i].ret = Some("Clean")
                   /\ Stored(g, pos) # {} => Stored(g, pos) = {calls[i].ret[1]}
                   /\ h = g
            /\ op \in {"clean", "weak", "infect", "flag"} =>
                   /\ state(h, pos) = Written(op)
                   /\ Stored(h, pos) = {Written(op)} \ {"Clean"}
                   /\ OthersKept(g, h, pos)
                   /\ state(g, pos) = Written(op) => h = g

C17_Witness ==
    /\ Len(calls) = 2
    /\ calls[1].op = "weak"
    /\ calls[2].op = "infect"
    /\ calls[1].pos = <<0, 0>>
    /\ calls[2].pos = <<0, 0>>
    /\ state(calls[2].grid, <<0, 0>>) = "Weakened"
    /\ state(grid, <<0, 0>>) = "Infected"
    /\ Elsewhere(grid, <<0, 0>>) = GridFrom(SIMPLE)

(* C20: the mapping never stores Clean: a cell that goes back to Clean is *)
(* removed, so the stored keys are exactly the cells that are not Clean,  *)
(* after any steps of either policy and any clean, weak, infect, flag and *)
(* reverse calls.                                                         *)
C20_SparseGrid ==
    /\ \A e \in grid : e[2] # "Clean"
    /\ \A e \in grid : Stored(grid, e[1]) = {e[2]}
    /\ \A pos \in Cells \cup { e[1] : e \in grid } :
           (Stored(grid, pos) # {}) <=> (state(grid, pos) # "Clean")

C20_Witness ==
    /\ Len(calls) = 2
    /\ LastCall.op = "EvolvedRule"
    /\ state(LastCall.grid, LastCall.pos) = "Flagged"
    /\ Stored(grid, LastCall.pos) = {}
    /\ grid = GridFrom(SIMPLE)

(* C18: in a run of CurrierRule on a grid built from text every cell     *)
(* stays Clean or Infected after any number of steps, so the panic of     *)
(* CurrierRule::apply on another state never happens.                     *)
C18_BasicAlphabet ==
    policy = "CurrierRule" =>
        /\ \A e \in grid : e[2] \in {"Clean", "Infected"}
        /\ \A pos \in (-MaxN..MaxN) \X (-MaxN..MaxN) : state(grid, pos) \in {"Clean", "Infected"}
        /\ ~ OutOfAlphabet(grid, currier)
        /\ pc # "panicked"

C18_Witness ==
    /\ policy = "CurrierRule"
    /\ pc = "running"
    /\ taken >= 4
    /\ count >= 2
    /\ Cardinality(grid) >= 4
    /\ grid # GridFrom(input)

Abs(x) == IF x < 0 THEN -x ELSE x

(* C19: one step of the cluster, under either policy, changes the state   *)
(* of exactly one cell, the one the carrier stood on, to a state other    *)
(* than the one it had; every other cell keeps its state and the carrier  *)
(* ends at Manhattan distance 1 from that cell.                           *)
C19_SingleCell ==
    [][taken' = taken + 1 =>
          LET p == currier.position
              q == currier'.position
              near == ((p[1] - 2)..(p[1] + 2)) \X ((p[2] - 2)..(p[2] + 2))
              all == near \cup { e[1] : e \in grid \cup grid' }
          IN  /\ state(grid', p) # state(grid, p)
              /\ { x \in all : state(grid', x) # state(grid, x) } = {p}
              /\ Elsewhere(grid', p) = Elsewhere(grid, p)
              /\ Abs(q[1] - p[1]) + Abs(q[2] - p[2]) = 1
              /\ pc' = "running"]_vars

C19_Witness ==
    /\ policy = "EvolvedRule"
    /\ pc = "running"
    /\ taken = 1
    /\ state(grid, start.position) = "Weakened"
    /\ Elsewhere(grid, start.position) = GridFrom(input)
    /\ GridFrom(input) # {}
    /\ currier = new(<<0, -1>>, "Left")

====
